---- MODULE Spec2Model ----
(***************************************************************************)
(* typst-ansi-hl: the Highlighter of lib/src/lib.rs (tree walker, raw      *)
(* blocks, tag colors, highlight levels, soft limit) and the               *)
(* DeferredWriter it writes through, together with the stand-alone binary  *)
(* of src/main.rs.                                                         *)
(*                                                                         *)
(* Text is a sequence of characters, each a string naming it: the backtick *)
(* is BT, the zero width joiner ZWJ (three bytes in UTF-8).  A sink (a     *)
(* termcolor WriteColor) is the sequence of operations it received and     *)
(* the number of operations it still accepts before one returns Err.       *)
(***************************************************************************)
EXTENDS Integers, Sequences, FiniteSets, TLC

VARIABLES
    \* DeferredWriter under direct use (the three trait methods)
    dw,          \* [inner, current_color, next_color]
    calls,       \* the calls made on dw so far, oldest first
    \* Highlighter::highlight_node_to
    discord,     \* Highlighter.discord
    soft_limit,  \* Highlighter.soft_limit: <<>> is None, <<n>> is Some(n)
    node,        \* the parsed document
    synt,        \* what the syntect engine answers for a language token
    pc,          \* "start", "loop", "done", "failed", "panicked"
    level,       \* the loop's level
    buf,         \* what the attempt wrote to buf_out (sink operations)
    out,         \* what the caller's out received (sink operations)
    tried        \* the levels rendered so far, with the byte length of each

vars == <<dw, calls, discord, soft_limit, node, synt, pc, level, buf, out, tried>>

----------------------------------------------------------------------------
(* Characters and strings *)

\* the backtick character
Tick == "BT"
NL == "\n"
ZERO_WIDTH_JOINER == "ZWJ"
\* the two annotations of highlight_raw, each one literal of 47 bytes
OpenNote == "/* when copying, remove and retype these --> */"
CloseNote == "/* <-- when copying, remove and retype these */"
NoteLen == 47
ZwjLen == 3

\* UTF-8 length of one character of the model
CharLen(c) ==
    IF c = ZERO_WIDTH_JOINER THEN ZwjLen
    ELSE IF c \in {OpenNote, CloseNote} THEN NoteLen
    ELSE 1

RECURSIVE StrLen(_)
\* str::len: the length in bytes
StrLen(s) == IF s = <<>> THEN 0 ELSE CharLen(Head(s)) + StrLen(Tail(s))

RECURSIVE Repeat(_, _)
Repeat(c, n) == IF n = 0 THEN <<>> ELSE <<c>> \o Repeat(c, n - 1)

RECURSIVE TakeWhileTick(_)
\* text.chars().take_while(|&c| c == BACKTICK)
TakeWhileTick(s) ==
    IF s # <<>> /\ Head(s) = Tick THEN <<Tick>> \o TakeWhileTick(Tail(s)) ELSE <<>>

RECURSIVE TrimStartTicks(_)
\* text.trim_start_matches(BACKTICK)
TrimStartTicks(s) ==
    IF s # <<>> /\ Head(s) = Tick THEN TrimStartTicks(Tail(s)) ELSE s

EndsWithNL(s) == s # <<>> /\ s[Len(s)] = NL

----------------------------------------------------------------------------
(* termcolor::ColorSpec, as far as the program sets it: fg is the name of  *)
(* a termcolor::Color, or "None"                                           *)

\* ColorSpec::new() / ColorSpec::default(): nothing set, reset = true
DefaultSpec ==
    [fg |-> "None", bold |-> FALSE, italic |-> FALSE, underline |-> FALSE,
     dimmed |-> FALSE, reset |-> TRUE]

\* The escape sequence length of termcolor's Ansi::set_color: "\x1B[0m" for
\* reset, "\x1B[1m".."\x1B[4m" for each flag, "\x1B[3Xm" for a named color.
EscLen == 4
FgLen == 5
SetColorLen(spec) ==
      (IF spec.reset THEN EscLen ELSE 0)
    + (IF spec.bold THEN EscLen ELSE 0)
    + (IF spec.dimmed THEN EscLen ELSE 0)
    + (IF spec.italic THEN EscLen ELSE 0)
    + (IF spec.underline THEN EscLen ELSE 0)
    + (IF spec.fg # "None" THEN FgLen ELSE 0)

----------------------------------------------------------------------------
(* The sink W: [ops, left].  ops is the sequence of operations it          *)
(* received; left is <<>> for a sink that never fails (Ansi<Vec<u8>>) and  *)
(* <<k>> for one that accepts k more operations and returns Err to the     *)
(* next one.  That failure is the only one: what a caller sends after it   *)
(* is received again, so that it shows.                                    *)

Vec(ops) == [ops |-> ops, left |-> <<>>]
Sink(ops, left) == [ops |-> ops, left |-> left]

\* whether the next operation on the sink returns Err
Refuses(s) == s.left = <<0>>

\* the sink after it returned Err
Refused(s) == [s EXCEPT !.left = <<>>]

\* the sink after it accepted the operation o
Receive(s, o) ==
    [ops |-> s.ops \o <<o>>, left |-> IF s.left = <<>> THEN <<>> ELSE <<s.left[1] - 1>>]

OpSetColor(spec) == [op |-> "set_color", spec |-> spec, bytes |-> <<>>]
OpWrite(bytes) == [op |-> "write", spec |-> DefaultSpec, bytes |-> bytes]

OpLen(o) == IF o.op = "set_color" THEN SetColorLen(o.spec) ELSE StrLen(o.bytes)

RECURSIVE SinkLen(_)
\* Vec::len of an Ansi<Vec<u8>> that received these operations
SinkLen(ops) == IF ops = <<>> THEN 0 ELSE OpLen(Head(ops)) + SinkLen(Tail(ops))

RECURSIVE SinkText(_)
\* the bytes written, escape sequences left out
SinkText(ops) ==
    IF ops = <<>> THEN <<>>
    ELSE (IF Head(ops).op = "write" THEN Head(ops).bytes ELSE <<>>) \o SinkText(Tail(ops))

RECURSIVE SinkStyles(_)
\* the set_color operations received, in order
SinkStyles(ops) ==
    IF ops = <<>> THEN <<>>
    ELSE (IF Head(ops).op = "set_color" THEN <<Head(ops).spec>> ELSE <<>>)
         \o SinkStyles(Tail(ops))

----------------------------------------------------------------------------
(* DeferredWriter *)

\* A DeferredWriter is [inner, current_color, next_color, err]: its three
\* fields, and err, the Result of the last call made with it (TRUE for Err).
\* The callers leave with the ? operator on Err, so err stays once set.

\* DeferredWriter::new
DWNew(writer) ==
    [inner |-> writer, current_color |-> DefaultSpec, next_color |-> <<>>, err |-> FALSE]

\* self.inner.write(buf)
InnerWrite(w, bytes) ==
    IF Refuses(w.inner) THEN [w EXCEPT !.inner = Refused(w.inner), !.err = TRUE]
    ELSE [w EXCEPT !.inner = Receive(w.inner, OpWrite(bytes))]

\* self.inner.set_color(&color)?; self.current_color = color;
\* the color was taken out of next_color before
InnerSetColor(w, color) ==
    IF Refuses(w.inner)
    THEN [w EXCEPT !.inner = Refused(w.inner), !.next_color = <<>>, !.err = TRUE]
    ELSE [w EXCEPT !.inner = Receive(w.inner, OpSetColor(color)),
                   !.current_color = color, !.next_color = <<>>]

\* write, were the bytes written though set_color returned Err
WriteAfterErr(w, bytes) == InnerWrite(w, bytes)

\* the write that follows the flush of the pending color, unless that
\* returned Err
WriteAfter(w, bytes) == IF w.err THEN w ELSE InnerWrite(w, bytes)

\* <DeferredWriter as Write>::write
DWWrite(w, bytes) ==
    IF w.next_color # <<>>
    THEN WriteAfter(InnerSetColor(w, w.next_color[1]), bytes)
    ELSE InnerWrite(w, bytes)

\* write!(out, ..) / writeln!(out, ..): Write::write_all, which calls write
\* only while bytes remain, so an empty string reaches no write at all
DWWriteAll(w, bytes) == IF bytes = <<>> THEN w ELSE DWWrite(w, bytes)

\* set_color, were the style sent at once
DWSetColorAtOnce(w, spec) ==
    [w EXCEPT !.inner = Receive(w.inner, OpSetColor(spec)),
              !.current_color = spec, !.next_color = <<>>]

\* set_color, were a pending style kept when the style the sink has is
\* asked for
DWSetColorKeepsPending(w, spec) ==
    IF w.current_color = spec
    THEN w
    ELSE [w EXCEPT !.next_color = <<spec>>]

\* <DeferredWriter as WriteColor>::set_color
DWSetColor(w, spec) ==
    IF w.current_color = spec
    THEN [w EXCEPT !.next_color = <<>>]
    ELSE [w EXCEPT !.next_color = <<spec>>]

\* <DeferredWriter as WriteColor>::reset
DWReset(w) == [w EXCEPT !.next_color = <<[DefaultSpec EXCEPT !.reset = TRUE]>>]

----------------------------------------------------------------------------
(* HighlightLevel: the derived Ord is the order of declaration *)

Off == 0
L1 == 1
L2 == 2
WithRaw == 3
WithStyles == 4
All == 5
HighlightLevel == {Off, L1, L2, WithRaw, WithStyles, All}

\* restrict, were L2 lowered to Off at once
restrictSkipsL1(l) ==
    CASE l = Off -> Off
      [] l = L1 -> Off
      [] l = L2 -> Off
      [] l = WithRaw -> L2
      [] l = WithStyles -> WithRaw
      [] l = All -> WithStyles

\* restrict, were All lowered to WithRaw at once
restrictSkipsWithStyles(l) ==
    CASE l = Off -> Off
      [] l = L1 -> Off
      [] l = L2 -> L1
      [] l = WithRaw -> L2
      [] l = WithStyles -> WithRaw
      [] l = All -> WithRaw

\* HighlightLevel::restrict
restrict(l) ==
    CASE l = Off -> Off
      [] l = L1 -> Off
      [] l = L2 -> L1
      [] l = WithRaw -> L2
      [] l = WithStyles -> WithRaw
      [] l = All -> WithStyles

----------------------------------------------------------------------------
(* typst_syntax::Tag and Highlighter::tag_to_color *)

Tag == {"Comment", "Punctuation", "Escape", "Strong", "Emph", "Link", "Raw",
        "Label", "Ref", "Heading", "ListMarker", "ListTerm", "MathDelimiter",
        "MathOperator", "Keyword", "Operator", "Number", "String", "Function",
        "Interpolated", "Error"}

\* Highlighter::tag_to_color; h is the Highlighter.  The arms are tried in
\* order, and a guarded arm whose guard fails falls to the last arm.
tag_to_color(h, hl_level, tag) ==
    LET color == DefaultSpec
        l1 == hl_level >= L1
        l2 == hl_level >= L2
        with_styles == hl_level >= WithStyles
    IN  CASE tag = "Comment" ->
                IF h.discord THEN [color EXCEPT !.fg = "Black"]
                ELSE [color EXCEPT !.dimmed = TRUE]
          [] tag = "Punctuation" /\ l1 -> [color EXCEPT !.fg = "None"]
          [] tag = "Escape" -> [color EXCEPT !.fg = "Cyan"]
          [] tag = "Strong" /\ l1 -> [color EXCEPT !.fg = "Yellow", !.bold = with_styles]
          [] tag = "Emph" /\ l1 -> [color EXCEPT !.fg = "Yellow", !.italic = with_styles]
          [] tag = "Link" /\ l1 -> [color EXCEPT !.fg = "Blue", !.underline = with_styles]
          [] tag = "Raw" -> [color EXCEPT !.fg = "White"]
          [] tag = "Label" -> [color EXCEPT !.fg = "Blue", !.underline = with_styles]
          [] tag = "Ref" -> [color EXCEPT !.fg = "Blue", !.underline = with_styles]
          [] tag = "Heading" -> [color EXCEPT !.fg = "Cyan", !.bold = with_styles]
          [] tag = "ListMarker" -> [color EXCEPT !.fg = "Cyan"]
          [] tag = "ListTerm" -> [color EXCEPT !.fg = "Cyan"]
          [] tag = "MathDelimiter" /\ l2 -> [color EXCEPT !.fg = "Cyan"]
          [] tag = "MathOperator" -> [color EXCEPT !.fg = "Cyan"]
          [] tag = "Keyword" -> [color EXCEPT !.fg = "Magenta"]
          [] tag = "Operator" /\ l2 -> [color EXCEPT !.fg = "Cyan"]
          [] tag = "Number" -> [color EXCEPT !.fg = "Yellow"]
          [] tag = "String" -> [color EXCEPT !.fg = "Green"]
          [] tag = "Function" /\ l2 -> [color EXCEPT !.fg = "Blue", !.italic = with_styles]
          [] tag = "Interpolated" /\ l2 -> [color EXCEPT !.fg = "White"]
          [] tag = "Error" -> [color EXCEPT !.fg = "Red"]
          [] OTHER -> color

----------------------------------------------------------------------------
(* highlight_lang: the syntect engine is the record h.synt,                *)
(*   known: whether SYNTAX_SET.find_syntax_by_token finds the token,       *)
(*   fg, bold, italic, underline: the style highlight_line gives a range,  *)
(*   fg being the result of convert_rgb_to_ansi_color,                     *)
(*   fail_line: the line at which highlight_line returns Err, 0 for none.  *)
(* highlight_line answers one range per line.                              *)

RECURSIVE LinesWithEndings(_, _)
\* syntect::util::LinesWithEndings: the lines, each with its line ending;
\* acc is the line read so far
LinesWithEndings(s, acc) ==
    IF s = <<>> THEN (IF acc = <<>> THEN <<>> ELSE <<acc>>)
    ELSE IF Head(s) = NL THEN <<acc \o <<NL>>>> \o LinesWithEndings(Tail(s), <<>>)
    ELSE LinesWithEndings(Tail(s), acc \o <<Head(s)>>)

\* the color highlight_lang builds from the style of a range
RangeColor(h) ==
    [DefaultSpec EXCEPT !.fg = h.synt.fg, !.bold = h.synt.bold,
                        !.italic = h.synt.italic, !.underline = h.synt.underline]

RECURSIVE HighlightLines(_, _, _, _)
\* the loop of highlight_lang over the lines, i being the number of the
\* first of them; it is left when highlight_line or the write returns Err
HighlightLines(h, lines, i, w) ==
    IF lines = <<>> \/ w.err THEN w
    ELSE IF h.synt.fail_line = i THEN [w EXCEPT !.err = TRUE]
    ELSE HighlightLines(h, Tail(lines), i + 1,
                        DWWriteAll(DWSetColor(w, RangeColor(h)), Head(lines)))

\* highlight_lang, were an unknown token an error
highlight_langStrict(h, input, lang, w) ==
    IF ~h.synt.known THEN [w EXCEPT !.err = TRUE]
    ELSE HighlightLines(h, LinesWithEndings(input, <<>>), 1, w)

\* highlight_lang
highlight_lang(h, input, lang, w) ==
    IF ~h.synt.known THEN DWWriteAll(w, input)
    ELSE HighlightLines(h, LinesWithEndings(input, <<>>), 1, w)

----------------------------------------------------------------------------
(* Highlighter::highlight_raw.  A raw block is [text, lang]: text is the   *)
(* node's whole text (into_text), lang is raw.lang(), <<>> for None and    *)
(* <<token>> for Some.                                                     *)

RECURSIVE FlatMapJoiner(_)
\* backticks.chars().flat_map(|c| [c, ZERO_WIDTH_JOINER]).collect()
FlatMapJoiner(s) ==
    IF s = <<>> THEN <<>> ELSE <<Head(s), ZERO_WIDTH_JOINER>> \o FlatMapJoiner(Tail(s))

\* String::pop: drops the last character, if there is one
Pop(s) == IF s = <<>> THEN s ELSE SubSeq(s, 1, Len(s) - 1)

\* the fence, were runs of three backticks left as they are
FenceAboveThree(h, backticks) ==
    IF h.discord /\ StrLen(backticks) > 3
    THEN [fence |-> Pop(FlatMapJoiner(backticks)), is_pure_fence |-> FALSE]
    ELSE [fence |-> backticks, is_pure_fence |-> TRUE]

\* the block computing (fence, is_pure_fence)
Fence(h, backticks) ==
    IF h.discord /\ StrLen(backticks) >= 3
    THEN [fence |-> Pop(FlatMapJoiner(backticks)), is_pure_fence |-> FALSE]
    ELSE [fence |-> backticks, is_pure_fence |-> TRUE]

\* set_color(&self.tag_to_color(hl_level, tag))?; write!(out, "{text}")?
\* Here and below a statement is reached only when the one before it
\* returned Ok: w.err is its Result.
WriteTagged(h, hl_level, w, tag, text) ==
    IF w.err THEN w
    ELSE DWWriteAll(DWSetColor(w, tag_to_color(h, hl_level, tag)), text)

\* RawOpenNote, were the length of the run not looked at
RawOpenNoteAlways(h, hl_level, w, f) ==
    IF h.discord
    THEN WriteTagged(h, hl_level, w, "Comment", <<OpenNote>>)
    ELSE w

\* the annotation before the opening fence, in Discord mode
RawOpenNote(h, hl_level, w, f) ==
    IF h.discord /\ ~f.is_pure_fence
    THEN WriteTagged(h, hl_level, w, "Comment", <<OpenNote>>)
    ELSE w

\* the language tag after the opening fence
RawLangTag(w, raw) ==
    IF raw.lang # <<>> /\ ~w.err THEN DWWriteAll(w, raw.lang[1]) ELSE w

\* "Write opening fence" up to the language tag
RawOpen(h, hl_level, w, raw, f) ==
    RawLangTag(WriteTagged(h, hl_level, RawOpenNote(h, hl_level, w, f), "Raw", f.fence),
               raw)

\* the annotation after the closing fence, in Discord mode
RawCloseNote(h, hl_level, w, f) ==
    IF h.discord /\ ~f.is_pure_fence
    THEN WriteTagged(h, hl_level, w, "Comment", <<CloseNote>>)
    ELSE w

\* "Write closing fence"
RawClose(h, hl_level, w, f) ==
    RawCloseNote(h, hl_level, WriteTagged(h, hl_level, w, "Raw", f.fence), f)

\* the end of the slice that trims the closing fence:
\* inner.len() - (text.len() - inner.len()), negative when usize underflows
InnerEnd(text, inner0) == StrLen(inner0) - (StrLen(text) - StrLen(inner0))

\* the inner text: highlighted when the block has a language and the level
\* allows it, written as it is otherwise.  w is the writer after the
\* opening fence, inner1 the text between the fences.  The result is
\* [out, ok]; ok is FALSE when a slice index is out of range, which panics.
\* The text of a raw block is source text, one byte per character here, so
\* byte indices are positions.
RawInner(h, hl_level, w, raw, f, inner1) ==
    IF raw.lang # <<>> /\ hl_level >= WithRaw
    THEN IF StrLen(raw.lang[1]) > StrLen(inner1) THEN [out |-> w, ok |-> FALSE]
         ELSE [out |-> RawClose(h, hl_level,
                           highlight_lang(h,
                               SubSeq(inner1, StrLen(raw.lang[1]) + 1, Len(inner1)),
                               raw.lang[1], w),
                           f),
               ok |-> TRUE]
    ELSE [out |-> RawClose(h, hl_level, DWWriteAll(w, inner1), f), ok |-> TRUE]

\* highlight_raw from the trimming on; w is the writer after the opening
\* fence, inner0 the text with the starting fence trimmed
RawTrim(h, hl_level, w, raw, f, inner0) ==
    IF w.err THEN [out |-> w, ok |-> TRUE]
    ELSE IF InnerEnd(raw.text, inner0) < 0 THEN [out |-> w, ok |-> FALSE]
    ELSE RawInner(h, hl_level, w, raw, f,
                  SubSeq(inner0, 1, InnerEnd(raw.text, inner0)))

\* highlight_raw once the fence is computed
RawWithFence(h, hl_level, w, raw, f) ==
    RawTrim(h, hl_level, RawOpen(h, hl_level, w, raw, f), raw, f,
            TrimStartTicks(raw.text))

\* Highlighter::highlight_raw
highlight_raw(h, hl_level, w, raw) ==
    RawWithFence(h, hl_level, w, raw, Fence(h, TakeWhileTick(raw.text)))

----------------------------------------------------------------------------
(* The tree walker.  A node is [kind, tag, text, children, lang]:          *)
(*   kind "raw":  ast::Raw::from_untyped(node) is Some; text and lang as   *)
(*                above; typst_syntax::highlight gives Tag::Raw;           *)
(*   kind "node": text is node.text() and children node.children(); an     *)
(*                inner node has empty text, a leaf has no children.       *)
(* tag is typst_syntax::highlight(node), "None" for no tag.                *)
(* The walk's state is [out, color, ok]: the DeferredWriter, the caller's  *)
(* color variable and whether the walk is still running (no panic).  The   *)
(* walk has returned Err when out.err holds.                               *)

RECURSIVE inner_highlight_node(_, _, _, _)
RECURSIVE HighlightChildren(_, _, _, _)

\* for child in node.children() { inner_highlight_node(..)?; }
HighlightChildren(h, hl_level, children, st) ==
    IF children = <<>> \/ ~st.ok \/ st.out.err THEN st
    ELSE HighlightChildren(h, hl_level, Tail(children),
                           inner_highlight_node(h, hl_level, Head(children), st))

\* if let Some(tag) = typst_syntax::highlight(node) { out.set_color(..)?; }
NodeEnter(h, hl_level, n, st) ==
    IF n.tag # "None"
    THEN [st EXCEPT !.out = DWSetColor(st.out, tag_to_color(h, hl_level, n.tag))]
    ELSE st

\* the walk's state after highlight_raw answered r
AfterRaw(st, r) == [st EXCEPT !.out = r.out, !.ok = r.ok]

\* NodeBody, were a leaf's text written a second time
NodeBodyTwice(h, hl_level, n, st) ==
    IF n.kind = "raw" THEN AfterRaw(st, highlight_raw(h, hl_level, st.out, n))
    ELSE IF n.text = <<>> THEN HighlightChildren(h, hl_level, n.children, st)
    ELSE [st EXCEPT !.out = DWWriteAll(DWWriteAll(st.out, n.text), n.text)]

\* the raw block, the children, or the leaf's text
NodeBody(h, hl_level, n, st) ==
    IF n.kind = "raw" THEN AfterRaw(st, highlight_raw(h, hl_level, st.out, n))
    ELSE IF n.text = <<>> THEN HighlightChildren(h, hl_level, n.children, st)
    ELSE [st EXCEPT !.out = DWWriteAll(st.out, n.text)]

\* out.set_color(&prev_color)?; *color = prev_color;
NodeExit(prev_color, st) ==
    IF ~st.ok \/ st.out.err THEN st
    ELSE [st EXCEPT !.out = DWSetColor(st.out, prev_color), !.color = prev_color]

\* inner_highlight_node: prev_color is color.clone() on entry
inner_highlight_node(h, hl_level, n, st) ==
    NodeExit(st.color, NodeBody(h, hl_level, n, NodeEnter(h, hl_level, n, st)))

RECURSIVE LastLeaf(_)
\* while let Some(child) = last_leaf.children().last() { last_leaf = child; }
\* The last child of a raw block is its closing delimiter.
LastLeaf(n) ==
    IF n.kind = "raw" THEN [n EXCEPT !.kind = "node", !.text = TakeWhileTick(n.text)]
    ELSE IF n.children = <<>> THEN n
    ELSE LastLeaf(n.children[Len(n.children)])

FenceOpener == <<Tick, Tick, Tick, "a", "n", "s", "i", NL>>
FenceCloser == <<Tick, Tick, Tick, NL>>

\* if highlighter.discord { writeln!(out, FenceOpener)?; }
WrapOpen(h, w) == IF h.discord THEN DWWriteAll(w, FenceOpener) ELSE w

\* the newline, were it written whatever the last leaf ends in
WrapNewlineAlways(n, w) == DWWriteAll(w, <<NL>>)

\* if !last_leaf.text().ends_with(NL) { writeln!(out)?; }
WrapNewline(n, w) == IF ~EndsWithNL(LastLeaf(n).text) THEN DWWriteAll(w, <<NL>>) ELSE w

\* writeln!(out, FenceCloser)?; Ok(())
WrapFence(w) == IF w.err THEN w ELSE DWWriteAll(w, FenceCloser)

\* what fn inner answers when it is left with the writer w: the operations
\* the sink received, whether it returned, and whether it returned Err
Returned(w, ok) == [out |-> w.inner.ops, ok |-> ok, err |-> w.err]

\* the end of fn inner, after the walk left the state st
WrapClose(h, n, st) ==
    IF ~st.ok THEN Returned(st.out, FALSE)
    ELSE IF h.discord /\ ~st.out.err
    THEN Returned(WrapFence(WrapNewline(n, st.out)), TRUE)
    ELSE Returned(st.out, TRUE)

\* inner_highlight_node(highlighter, hl_level, node, &mut out,
\* &mut ColorSpec::new())?, reached when the opener was written
Walk(h, hl_level, n, w) ==
    IF w.err THEN [out |-> w, color |-> DefaultSpec, ok |-> TRUE]
    ELSE inner_highlight_node(h, hl_level, n,
                              [out |-> w, color |-> DefaultSpec, ok |-> TRUE])

\* fn inner: one render of the document at hl_level into the given sink.
\* The result is [out, ok, err].
inner(h, n, sink, hl_level) ==
    WrapClose(h, n, Walk(h, hl_level, n, WrapOpen(h, DWNew(sink))))

----------------------------------------------------------------------------
(* The documents: what typst_syntax::parse can hand to the walker *)

Leaf(tag, text) ==
    [kind |-> "node", tag |-> tag, text |-> text, children |-> <<>>, lang |-> <<>>]
Inner(tag, children) ==
    [kind |-> "node", tag |-> tag, text |-> <<>>, children |-> children, lang |-> <<>>]
\* a raw block delimited by n backticks on each side
Raw(n, lang, body) ==
    [kind |-> "raw", tag |-> "Raw",
     text |-> Repeat(Tick, n) \o (IF lang = <<>> THEN <<>> ELSE lang[1]) \o body
              \o Repeat(Tick, n),
     children |-> <<>>, lang |-> lang]

MaxTicks == 3
MaxChildren == 2
MaxCalls == 4

\* leaves: untagged text (with and without a final newline) and tagged tokens
Leaves ==
    {Leaf("None", <<"a">>), Leaf("None", <<"a", NL>>), Leaf("Escape", <<"e">>),
     Leaf("MathDelimiter", <<"$">>)}

\* inner nodes over leaves: an empty one, strong text, a heading that calls
\* a function
Inners ==
    {Inner("None", <<>>),
     Inner("Strong", <<Leaf("None", <<"*">>), Leaf("None", <<"a">>)>>),
     Inner("Heading", <<Leaf("None", <<"=">>), Leaf("Function", <<"f">>)>>)}

\* raw blocks: an inline one of one backtick, the empty raw block (two
\* backticks, lexed as one raw token), and blocks of three backticks and
\* more, with and without a language tag
Raws ==
    {Raw(1, <<>>, <<"a">>), Raw(1, <<>>, <<>>)}
    \cup {Raw(n, <<>>, <<NL, "a", NL>>) : n \in 3..MaxTicks}
    \cup {Raw(n, <<<<"r">>>>, <<NL, "a", NL>>) : n \in 3..MaxTicks}

Items == Leaves \cup Inners \cup Raws

RECURSIVE SeqsUpTo(_, _)
\* the sequences over S of length at most n
SeqsUpTo(S, n) ==
    IF n = 0 THEN {<<>>}
    ELSE LET shorter == SeqsUpTo(S, n - 1)
         IN  shorter \cup {<<x>> \o t : x \in S, t \in {u \in shorter : Len(u) = n - 1}}

\* the root is an untagged Markup node
Documents == {Inner("None", ch) : ch \in SeqsUpTo(Items, MaxChildren)}

\* what the syntect engine answers: it does not know the token; it knows
\* it and styles every range green and bold; it knows it and fails at the
\* second line
Engines ==
    {[known |-> FALSE, fg |-> "None", bold |-> FALSE, italic |-> FALSE, underline |-> FALSE,
      fail_line |-> 0],
     [known |-> TRUE, fg |-> "Green", bold |-> TRUE, italic |-> FALSE, underline |-> FALSE,
      fail_line |-> 0],
     [known |-> TRUE, fg |-> "Green", bold |-> TRUE, italic |-> FALSE, underline |-> FALSE,
      fail_line |-> 2]}

RECURSIVE HasLang(_)
\* whether a raw block with a language tag occurs in the tree
HasLang(n) == n.lang # <<>> \/ \E i \in DOMAIN n.children : HasLang(n.children[i])

\* the engine is consulted only for a language tag: without one, one engine
\* stands for all
EnginesFor(n) == IF HasLang(n) THEN Engines ELSE {e \in Engines : ~e.known}

\* soft limits: none, zero, and one among the renders' sizes
Limits == {<<>>, <<0>>, <<20>>}

\* the caller's sink: it never fails, or it returns Err after it accepted
\* up to MaxAccepted operations
MaxAccepted == 3
Lefts == {<<>>} \cup {<<k>> : k \in 0..MaxAccepted}

----------------------------------------------------------------------------
(* Highlighter::highlight_node_to *)

Highlighter == [discord |-> discord, synt |-> synt]

HInit ==
    /\ discord \in BOOLEAN
    /\ soft_limit \in Limits
    /\ node \in Documents
    /\ synt \in EnginesFor(node)
    /\ pc = "start"
    /\ level = All
    /\ buf = <<>>
    /\ out = <<>>
    /\ tried = <<>>

\* where highlight_node_to is once a call of inner answered r
After(r) == IF ~r.ok THEN "panicked" ELSE IF r.err THEN "failed" ELSE "done"

\* no soft limit: inner(self, node, out, HighlightLevel::All)?
DirectWith(r) ==
    /\ out' = r.out
    /\ pc' = After(r)

HighlightDirect ==
    /\ pc = "start"
    /\ soft_limit = <<>>
    /\ \E left \in Lefts : DirectWith(inner(Highlighter, node, Sink(out, left), All))
    /\ UNCHANGED <<dw, calls, discord, soft_limit, node, synt, level, buf, tried>>

\* buf.len() < soft_limit || level == HighlightLevel::Off
Accepted(b) == SinkLen(b) < soft_limit[1] \/ level = Off

\* out.write_all(&buf), were the buffer written twice
WriteAllTwice(o, b, left) == o \o b \o b

\* out.write_all(&buf): every operation of the buffer reaches the caller's
\* sink, or, when a write returns Err, those before it
WriteAllTo(o, b, left) ==
    IF left = <<>> \/ left[1] >= Len(b) THEN o \o b ELSE o \o SubSeq(b, 1, left[1])

AcceptWith(r) ==
    /\ r.ok /\ ~r.err
    /\ Accepted(r.out)
    /\ buf' = r.out
    /\ out' = WriteAllTo(out, r.out, <<>>)
    /\ tried' = Append(tried, [level |-> level, len |-> SinkLen(r.out)])

\* one turn of the loop whose buffer is accepted: written to the real
\* output (the bytes of the buffer are the operations that made them)
Accept ==
    /\ pc \in {"start", "loop"}
    /\ soft_limit # <<>>
    /\ AcceptWith(inner(Highlighter, node, Vec(buf), level))
    /\ pc' = "done"
    /\ UNCHANGED <<dw, calls, discord, soft_limit, node, synt, level>>

AcceptFailsWith(r, left) ==
    /\ r.ok /\ ~r.err
    /\ Accepted(r.out)
    /\ left[1] < Len(r.out)
    /\ buf' = r.out
    /\ out' = WriteAllTo(out, r.out, left)
    /\ tried' = Append(tried, [level |-> level, len |-> SinkLen(r.out)])

\* one turn of the loop whose buffer is accepted, the caller's sink
\* returning Err in out.write_all(&buf)?
AcceptFails ==
    /\ pc \in {"start", "loop"}
    /\ soft_limit # <<>>
    /\ \E left \in Lefts \ {<<>>} :
          AcceptFailsWith(inner(Highlighter, node, Vec(buf), level), left)
    /\ pc' = "failed"
    /\ UNCHANGED <<dw, calls, discord, soft_limit, node, synt, level>>

\* buf.clear(), were the buffer left as it is
Kept(b) == b

\* buf.clear()
Cleared(b) == <<>>

DegradeWith(r) ==
    /\ r.ok /\ ~r.err
    /\ ~Accepted(r.out)
    /\ buf' = Cleared(r.out)
    /\ tried' = Append(tried, [level |-> level, len |-> SinkLen(r.out)])

\* one turn of the loop whose buffer is rejected: cleared, the level lowered
Degrade ==
    /\ pc \in {"start", "loop"}
    /\ soft_limit # <<>>
    /\ DegradeWith(inner(Highlighter, node, Vec(buf), level))
    /\ level' = restrict(level)
    /\ pc' = "loop"
    /\ UNCHANGED <<dw, calls, discord, soft_limit, node, synt, out>>

PanicWith(r) ==
    /\ ~r.ok
    /\ buf' = r.out

\* one turn of the loop whose render panics (a slice out of range)
RenderPanics ==
    /\ pc \in {"start", "loop"}
    /\ soft_limit # <<>>
    /\ PanicWith(inner(Highlighter, node, Vec(buf), level))
    /\ pc' = "panicked"
    /\ UNCHANGED <<dw, calls, discord, soft_limit, node, synt, level, out, tried>>

FailWith(r) ==
    /\ r.ok /\ r.err
    /\ buf' = r.out

\* one turn of the loop whose render returns Err: inner(..)? returns it
RenderFails ==
    /\ pc \in {"start", "loop"}
    /\ soft_limit # <<>>
    /\ FailWith(inner(Highlighter, node, Vec(buf), level))
    /\ pc' = "failed"
    /\ UNCHANGED <<dw, calls, discord, soft_limit, node, synt, level, out, tried>>

Init == HInit /\ dw = DWNew(Vec(<<>>)) /\ calls = <<>>

Next ==
    HighlightDirect \/ Accept \/ AcceptFails \/ Degrade \/ RenderPanics \/ RenderFails

Spec == Init /\ [][Next]_vars

----------------------------------------------------------------------------
(* The DeferredWriter under every sequence of calls of its three methods *)

\* the styles a caller asks for
Styles ==
    {DefaultSpec, [DefaultSpec EXCEPT !.fg = "Cyan"],
     [DefaultSpec EXCEPT !.fg = "Yellow", !.bold = TRUE]}

Idle ==
    /\ discord = FALSE
    /\ soft_limit = <<>>
    /\ node = Inner("None", <<>>)
    /\ synt \in {e \in Engines : ~e.known}
    /\ pc = "idle"
    /\ level = All
    /\ buf = <<>>
    /\ out = <<>>
    /\ tried = <<>>

UnchangedHighlighter ==
    UNCHANGED <<discord, soft_limit, node, synt, pc, level, buf, out, tried>>

DWInit == Idle /\ dw = DWNew(Vec(<<>>)) /\ calls = <<>>

CallSetColor ==
    /\ Len(calls) < MaxCalls
    /\ \E spec \in Styles :
          /\ dw' = DWSetColor(dw, spec)
          /\ calls' = Append(calls, [op |-> "set_color", spec |-> spec, bytes |-> <<>>])
    /\ UnchangedHighlighter

CallReset ==
    /\ Len(calls) < MaxCalls
    /\ dw' = DWReset(dw)
    /\ calls' = Append(calls, [op |-> "reset", spec |-> DefaultSpec, bytes |-> <<>>])
    /\ UnchangedHighlighter

CallWrite ==
    /\ Len(calls) < MaxCalls
    /\ \E bytes \in {<<>>, <<"a">>} :
          /\ dw' = DWWrite(dw, bytes)
          /\ calls' = Append(calls, [op |-> "write", spec |-> DefaultSpec, bytes |-> bytes])
    /\ UnchangedHighlighter

DWNext == CallSetColor \/ CallReset \/ CallWrite

SpecDW == DWInit /\ [][DWNext]_vars

----------------------------------------------------------------------------
(* highlight_raw on every raw block, flag and level *)

RawInit ==
    /\ discord \in BOOLEAN
    /\ soft_limit = <<>>
    /\ node \in Raws
    /\ synt \in EnginesFor(node)
    /\ pc = "raw"
    /\ level \in HighlightLevel
    /\ buf = <<>>
    /\ out = <<>>
    /\ tried = <<>>
    /\ dw = DWNew(Vec(<<>>))
    /\ calls = <<>>

RawReturns(r) ==
    /\ dw' = r.out
    /\ buf' = r.out.inner.ops
    /\ pc' = IF ~r.ok THEN "panicked" ELSE IF r.out.err THEN "failed" ELSE "done"

\* highlighter.highlight_raw(hl_level, out, raw) on a new DeferredWriter
HighlightRaw ==
    /\ pc = "raw"
    /\ RawReturns(highlight_raw(Highlighter, level, dw, node))
    /\ UNCHANGED <<calls, discord, soft_limit, node, synt, level, out, tried>>

RawNext == HighlightRaw

SpecRaw == RawInit /\ [][RawNext]_vars

----------------------------------------------------------------------------
(* tag_to_color on every tag, flag and level, as the walker applies it on  *)
(* entering a tagged leaf                                                  *)

TagInit ==
    /\ discord \in BOOLEAN
    /\ soft_limit = <<>>
    /\ node \in {Leaf(tag, <<"x">>) : tag \in Tag}
    /\ synt \in {e \in Engines : ~e.known}
    /\ pc = "tag"
    /\ level \in HighlightLevel
    /\ buf = <<>>
    /\ out = <<>>
    /\ tried = <<>>
    /\ dw = DWNew(Vec(<<>>))
    /\ calls = <<>>

\* out.set_color(&highlighter.tag_to_color(hl_level, tag))? on a new
\* DeferredWriter
EnterTagged ==
    /\ pc = "tag"
    /\ dw' = NodeEnter(Highlighter, level, node,
                       [out |-> dw, color |-> DefaultSpec, ok |-> TRUE]).out
    /\ pc' = "done"
    /\ UNCHANGED <<calls, discord, soft_limit, node, synt, level, buf, out, tried>>

TagNext == EnterTagged

SpecTag == TagInit /\ [][TagNext]_vars

----------------------------------------------------------------------------
(* What the claims speak of *)

RECURSIVE HasRaw(_)
\* whether a raw block occurs in the tree
HasRaw(n) == n.kind = "raw" \/ \E i \in DOMAIN n.children : HasRaw(n.children[i])

RECURSIVE DocText(_)
RECURSIVE TextOfAll(_)
\* the concatenated literal text of the children
TextOfAll(children) ==
    IF children = <<>> THEN <<>> ELSE DocText(Head(children)) \o TextOfAll(Tail(children))
\* the concatenated literal text of a tree
DocText(n) == IF n.kind = "raw" \/ n.text # <<>> THEN n.text ELSE TextOfAll(n.children)

RECURSIVE StyledWrites(_, _)
\* the byte writes a sink received, each with the style in force when it
\* arrived; cur is the style in force at the start
StyledWrites(ops, cur) ==
    IF ops = <<>> THEN <<>>
    ELSE IF Head(ops).op = "set_color" THEN StyledWrites(Tail(ops), Head(ops).spec)
    ELSE <<[style |-> cur, bytes |-> Head(ops).bytes]>> \o StyledWrites(Tail(ops), cur)

RECURSIVE ScopedWrites(_, _, _, _)
RECURSIVE ScopedAll(_, _, _, _)
ScopedAll(h, hl_level, children, style) ==
    IF children = <<>> THEN <<>>
    ELSE ScopedWrites(h, hl_level, Head(children), style)
         \o ScopedAll(h, hl_level, Tail(children), style)
\* the leaves of a tree without raw blocks in source order, each with the
\* style of its nearest tagged ancestor-or-self (style: the one inherited)
ScopedWrites(h, hl_level, n, style) ==
    IF n.text # <<>>
    THEN <<[style |-> IF n.tag # "None" THEN tag_to_color(h, hl_level, n.tag) ELSE style,
            bytes |-> n.text]>>
    ELSE ScopedAll(h, hl_level, n.children,
                   IF n.tag # "None" THEN tag_to_color(h, hl_level, n.tag) ELSE style)

\* a render of the document on its own, at level l
RenderAt(l) == inner(Highlighter, node, Vec(<<>>), l)
RenderLen(l) == SinkLen(RenderAt(l).out)

\* C1: in a finished render of a tree (no raw blocks, no Discord wrapping)
\* every leaf was written under the style of its nearest tagged
\* ancestor-or-self, the default style if there is none
C1_LexicalScope ==
    (pc = "done" /\ ~discord /\ ~HasRaw(node))
        => StyledWrites(out, DefaultSpec) = ScopedWrites(Highlighter, level, node, DefaultSpec)

\* C2: with a soft limit the loop ends only by accepting a buffer, after at
\* most six renders
C2_AlwaysAccepts == soft_limit # <<>> => (pc # "panicked" /\ Len(tried) <= 6)

\* the highest level among those whose render (lens: the length of each
\* level's) is below the limit, Off if there is none
HighestBelow(lens, limit) ==
    IF \E l \in HighlightLevel : lens[l] < limit
    THEN CHOOSE l \in HighlightLevel :
            lens[l] < limit /\ \A m \in HighlightLevel : lens[m] < limit => m <= l
    ELSE Off
BestLevel == HighestBelow([l \in HighlightLevel |-> RenderLen(l)], soft_limit[1])

\* what the claim says is emitted, l being the level
EmittedAt(l) == level = l /\ out = RenderAt(l).out

\* C3: with a soft limit, what is emitted is the render at the highest level
\* whose length is below the limit, and the render at Off if there is none;
\* the render at Off is never rejected, and the call then fails only when
\* the caller's sink refused a write of the buffer
C3_HighestFitting ==
    /\ (pc = "done" /\ soft_limit # <<>>)
          => EmittedAt(BestLevel)
    /\ \A i \in DOMAIN tried :
          tried[i].level = Off => (pc = "done" \/ (pc = "failed" /\ Len(out) < Len(buf)))

\* a level between Full and Off was accepted
C3_Witness == pc = "done" /\ soft_limit # <<>> /\ level # All /\ level # Off

\* C4: the accepted render is no longer than the render at Full (All), the
\* first one tried
C4_AcceptedNoLongerThanFull ==
    (pc = "done" /\ soft_limit # <<>>) => SinkLen(out) <= tried[1].len

\* C5: each level tried renders no longer than the level tried before it
C5_LowerLevelNoLonger ==
    \A i \in DOMAIN tried : i > 1 => tried[i].len <= tried[i - 1].len

\* C6: the render at Off, without Discord, is the literal text and no style
C6_OffIsPlainText ==
    (pc = "done" /\ level = Off /\ ~discord)
        => (SinkStyles(out) = <<>> /\ SinkText(out) = DocText(node))

\* C7: the sink never receives the same style twice in a row
C7_NoRepeatedStyle ==
    \A i \in DOMAIN SinkStyles(dw.inner.ops) :
        i > 1 => SinkStyles(dw.inner.ops)[i] # SinkStyles(dw.inner.ops)[i - 1]

\* the call just made; the call before it
LastCall(cs) == cs[Len(cs)]
C8_Step(before, c, w, w2) ==
    /\ c.op \in {"set_color", "reset"} => w2.inner = w.inner
    /\ c.op = "write" =>
          \/ w2.inner.ops = w.inner.ops \o <<OpWrite(c.bytes)>>
          \/ /\ before # <<>>
             /\ LastCall(before).op \in {"set_color", "reset"}
             /\ w2.inner.ops
                   = w.inner.ops \o <<OpSetColor(LastCall(before).spec), OpWrite(c.bytes)>>

\* C8: set_color and reset send nothing; a write sends its bytes, preceded
\* by a style only if the call just before it asked for that style
C8_StyleSentOnlyWithWrite ==
    [][calls' # calls => C8_Step(calls, LastCall(calls'), dw, dw')]_vars

\* two styles asked for in a row, then a write: only the second was sent
C8_Witness ==
    /\ Len(calls) = 3
    /\ calls[1].op = "set_color" /\ calls[2].op = "set_color" /\ calls[3].op = "write"
    /\ calls[1].spec # calls[2].spec /\ calls[1].spec # DefaultSpec
    /\ SinkStyles(dw.inner.ops) = <<calls[2].spec>>

RECURSIVE RemoveJoiners(_)
RemoveJoiners(s) ==
    IF s = <<>> THEN <<>>
    ELSE (IF Head(s) = ZERO_WIDTH_JOINER THEN <<>> ELSE <<Head(s)>>) \o RemoveJoiners(Tail(s))

\* whether f is what the claim asks of the fence of n backticks
FenceAsClaimed(f, n) ==
    IF discord /\ n >= 3
    THEN /\ Len(f) = 2 * n - 1
         /\ \A i \in DOMAIN f : f[i] = (IF i % 2 = 1 THEN Tick ELSE ZERO_WIDTH_JOINER)
         /\ RemoveJoiners(f) = Repeat(Tick, n)
    ELSE f = Repeat(Tick, n)

\* the strings highlight_raw wrote, the annotations left out
RECURSIVE NoNotes(_)
NoNotes(ws) ==
    IF ws = <<>> THEN <<>>
    ELSE (IF Head(ws).bytes \in {<<OpenNote>>, <<CloseNote>>} THEN <<>> ELSE <<Head(ws).bytes>>)
         \o NoNotes(Tail(ws))
RawWrites == NoNotes(StyledWrites(buf, DefaultSpec))

\* C9: the opening fence, and the closing fence once the block is written,
\* are the backticks unchanged (plain mode, or fewer than three) or the
\* backticks with one joiner between each two (Discord mode, three and more)
C9_FenceEscaping ==
    /\ pc \in {"done", "panicked"}
          => FenceAsClaimed(RawWrites[1], Len(TakeWhileTick(node.text)))
    /\ pc = "done"
          => FenceAsClaimed(RawWrites[Len(RawWrites)], Len(TakeWhileTick(node.text)))

C9_Witness == pc = "done" /\ discord /\ Len(TakeWhileTick(node.text)) >= 3

\* the text the walk itself writes
WalkText ==
    SinkText(inner_highlight_node(Highlighter, level, node,
                 [out |-> DWNew(Vec(<<>>)), color |-> DefaultSpec, ok |-> TRUE]).out.inner.ops)

\* the output of a Discord render: opener first, then the walk's text, a
\* newline if the last leaf does not end in one, the closing fence
C10_Wrapped(t) ==
    /\ out[1] = OpWrite(FenceOpener)
    /\ t = FenceOpener \o WalkText
           \o (IF EndsWithNL(LastLeaf(node).text) THEN <<>> ELSE <<NL>>) \o FenceCloser
    /\ t[Len(t) - Len(FenceCloser)] = NL

\* C10: Discord output is wrapped as said, the closing fence right after a
\* newline; other output is not wrapped
C10_FenceOnOwnLine ==
    pc = "done" => IF discord THEN C10_Wrapped(SinkText(out)) ELSE SinkText(out) = WalkText

\* a Discord render whose last leaf ends in a newline: none was inserted
C10_Witness == pc = "done" /\ discord /\ EndsWithNL(LastLeaf(node).text)

RECURSIVE Flatten(_)
Flatten(ss) == IF ss = <<>> THEN <<>> ELSE Head(ss) \o Flatten(Tail(ss))

\* what was written between the two fences
Between(ws) == Flatten(SubSeq(ws, 2, Len(ws) - 1))

\* the source between the two runs of n backticks
SourceBetween(text, n) == SubSeq(text, n + 1, Len(text) - n)

\* C11: a raw block with a language tag, rendered below WithRaw: the
\* engine is not asked (its failure cannot fail the render), and what is
\* written between the fences is the source between them, the language tag
\* once and the inner text once
C11_VerbatimBelowWithRaw ==
    (node.lang # <<>> /\ level < WithRaw /\ pc # "raw")
        => /\ pc = "done"
           /\ Between(RawWrites) = SourceBetween(node.text, Len(TakeWhileTick(node.text)))

\* the inner text of a raw block with a language tag: the source between
\* the fences, after the tag
InnerText(n) ==
    SubSeq(SourceBetween(n.text, Len(TakeWhileTick(n.text))),
           Len(n.lang[1]) + 1, Len(n.text) - 2 * Len(TakeWhileTick(n.text)))

\* the styles of the tags of highlight_raw
RawTagStyles ==
    {tag_to_color(Highlighter, level, "Raw"), tag_to_color(Highlighter, level, "Comment")}

\* the lines before line i
LinesBefore(lines, i) == SubSeq(lines, 1, i - 1)

\* C12: at WithRaw and above, a raw block whose language tag the engine does
\* not know is written as it is, tag and inner text once, under no style
\* but those of the tags, and the render returns Ok; when the engine knows
\* the tag and fails at a line, the render returns Err, and nothing is
\* written from that line on
C12_UnknownLanguageVerbatim ==
    (node.lang # <<>> /\ level >= WithRaw /\ pc # "raw")
        => IF ~synt.known
           THEN /\ pc = "done"
                /\ SubSeq(RawWrites, 2, Len(RawWrites) - 1) = <<node.lang[1], InnerText(node)>>
                /\ \A i \in DOMAIN SinkStyles(buf) : SinkStyles(buf)[i] \in RawTagStyles
           ELSE IF synt.fail_line \in DOMAIN LinesWithEndings(InnerText(node), <<>>)
           THEN /\ pc = "failed"
                /\ Tail(RawWrites)
                     = <<node.lang[1]>>
                       \o LinesBefore(LinesWithEndings(InnerText(node), <<>>), synt.fail_line)
           ELSE pc = "done"

\* an unknown language tag at a level that asks the engine
C12_Witness ==
    pc = "done" /\ node.lang # <<>> /\ level >= WithRaw /\ ~synt.known /\ discord


\* whether a style carries a font style
FontStyled(spec) == spec.bold \/ spec.italic \/ spec.underline

\* C13: below WithStyles no style that reaches the sink is bold, italic or
\* underlined, be it the style of a tag or one the engine gave
C13_NoFontStyleBelowWithStyles ==
    level < WithStyles => \A i \in DOMAIN SinkStyles(buf) : ~FontStyled(SinkStyles(buf)[i])

\* the style the writer was asked for on entering the leaf: the pending
\* one, the default style when none is pending
AskedStyle == IF dw.next_color = <<>> THEN DefaultSpec ELSE dw.next_color[1]

\* the minimum levels of the design table (Basic is L1, Extended L2,
\* WithEmbeddedCode WithRaw)
TableTags ==
    {"Comment", "Strong", "Emph", "Link", "Label", "Ref", "Heading", "Punctuation",
     "Operator", "MathDelimiter", "Function", "Interpolated", "Keyword", "String",
     "Number", "Escape", "Error", "Raw"}
TableMinLevel(tag) ==
    CASE tag \in {"Comment", "Strong", "Emph", "Link", "Label", "Ref", "Heading"} -> L1
      [] tag \in {"Punctuation", "Operator", "MathDelimiter"} -> L2
      [] tag \in {"Function", "Interpolated"} -> WithRaw
      [] OTHER -> Off

\* C14: the style of a tag of the table is the empty style below the tag's
\* minimum level and a color from that level on (the color of punctuation
\* is no color, so that nothing is asked of it from its level on)
C14_TableMinLevels ==
    (pc = "done" /\ node.tag \in TableTags)
        => IF level < TableMinLevel(node.tag) THEN AskedStyle = DefaultSpec
           ELSE node.tag = "Punctuation" \/ AskedStyle # DefaultSpec

\* C15: a render whose length does not exceed the soft limit is the last
\* one made: it is emitted, the level is not lowered after it
C15_WithinLimitIsEmitted ==
    soft_limit # <<>>
        => \A i \in DOMAIN tried :
              tried[i].len <= soft_limit[1] => (i = Len(tried) /\ pc # "loop")

\* the render at level l when neither the engine nor the sink fails
Unfailing(l) ==
    inner([Highlighter EXCEPT !.synt.fail_line = 0], node, Vec(<<>>), l).out

\* whether s is t cut short
CutShort(s, t) == Len(s) < Len(t) /\ s = SubSeq(t, 1, Len(s))

\* C16: a call that returned Ok sent the whole render; a call that returned
\* Err stopped where the sink or the engine failed: what the sink of the
\* render holds is the render cut short, or, with a soft limit and a whole
\* buffer, what the caller's sink holds is the buffer cut short
C16_FailureAborts ==
    /\ (pc = "done" /\ soft_limit = <<>>) => out = Unfailing(All)
    /\ (pc = "failed" /\ soft_limit = <<>>) => CutShort(out, Unfailing(All))
    /\ (pc = "failed" /\ soft_limit # <<>>)
          => \/ out = <<>> /\ CutShort(buf, Unfailing(level))
             \/ buf = Unfailing(level) /\ CutShort(out, buf)

\* the sink returned Err in the middle of a render in Discord mode, after
\* it received something
C16_Witness == pc = "failed" /\ soft_limit = <<>> /\ discord /\ Len(out) >= 2

\* the levels from the highest down
Chain == <<All, WithStyles, WithRaw, L2, L1, Off>>

\* C17: the levels the loop rendered are the first ones of the chain from
\* All down to Off, in that order, and the level it is at is the next of
\* the chain; restrict gives the level just below, and Off for Off
C17_DescendingChain ==
    /\ \A i \in DOMAIN tried : i <= Len(Chain) /\ tried[i].level = Chain[i]
    /\ pc = "loop" => (Len(tried) < Len(Chain) /\ level = Chain[Len(tried) + 1])
    /\ \A l \in HighlightLevel : restrict(l) = IF l = Off THEN Off ELSE l - 1

\* the loop went through the whole chain
C17_Witness == pc = "done" /\ Len(tried) = 6 /\ tried[5].len # tried[1].len

\* C18: each attempt of the loop starts from an empty buffer, and what it
\* renders is what a render of the document on its own at that level gives,
\* into an empty sink through a new DeferredWriter: the lengths recorded
\* for the levels tried, and the buffer that was accepted
C18_AttemptsAreFresh ==
    soft_limit # <<>>
        => /\ pc \in {"start", "loop"} => buf = <<>>
           /\ \A i \in DOMAIN tried : tried[i].len = RenderLen(tried[i].level)
           /\ pc = "done" => buf = RenderAt(level).out

\* an attempt was accepted after two were rejected with something in the
\* buffer
C18_Witness == pc = "done" /\ Len(tried) >= 3 /\ tried[1].len > 0 /\ buf # <<>>

\* C19: with a soft limit the caller's sink receives nothing while attempts
\* are rendered and rejected, nothing when an attempt panics or returns Err,
\* and the accepted buffer, once, after it was accepted (cut short when the
\* caller's sink returns Err then)
C19_OnlyAcceptedReachesOutput ==
    soft_limit # <<>>
        => /\ pc \in {"start", "loop", "panicked"} => out = <<>>
           /\ pc = "done" => out = buf
           /\ pc = "failed"
                 => IF buf = Unfailing(level) THEN CutShort(out, buf) ELSE out = <<>>

\* an attempt returned Err after it wrote to the buffer
C19_Witness ==
    pc = "failed" /\ soft_limit # <<>> /\ buf # <<>> /\ buf # Unfailing(level)

RECURSIVE LeafTexts(_)
RECURSIVE LeafTextsOfAll(_)
LeafTextsOfAll(children) ==
    IF children = <<>> THEN <<>>
    ELSE LeafTexts(Head(children)) \o LeafTextsOfAll(Tail(children))
\* the non-empty texts of the tree's nodes in source order; a node with text
\* stands for itself, a node without for its children
LeafTexts(n) == IF n.text # <<>> THEN <<n.text>> ELSE LeafTextsOfAll(n.children)

\* the byte writes a sink received, in order
Writes(ops) ==
    LET ws == StyledWrites(ops, DefaultSpec) IN [i \in DOMAIN ws |-> ws[i].bytes]

\* C20: for a tree without raw blocks, not in Discord mode, the byte writes
\* of a render at any level are the texts of the tree's leaves, each once,
\* in source order; so are those of the output of a finished call
C20_LeavesOnceInOrder ==
    (~discord /\ ~HasRaw(node))
        => /\ \A l \in HighlightLevel : Writes(RenderAt(l).out) = LeafTexts(node)
           /\ pc = "done" => Writes(out) = LeafTexts(node)

\* a finished call below All on a tree of three leaves and more, one of
\* them under a tagged node
C20_Witness ==
    /\ pc = "done" /\ ~discord /\ ~HasRaw(node) /\ level # All
    /\ Len(LeafTexts(node)) >= 3
    /\ \E i \in DOMAIN node.children : node.children[i].children # <<>>

\* the annotations among the byte writes ws, in order
RECURSIVE Notes(_)
Notes(ws) ==
    IF ws = <<>> THEN <<>>
    ELSE (IF Head(ws) \in {<<OpenNote>>, <<CloseNote>>} THEN <<Head(ws)>> ELSE <<>>)
         \o Notes(Tail(ws))

\* whether the raw block is one the annotations are for
Annotated == discord /\ Len(TakeWhileTick(node.text)) >= 3

\* what the claim asks of the byte writes ws of an annotated block
AnnotatedAsClaimed(ws, n) ==
    /\ Len(ws) >= 4
    /\ ws[1] = <<OpenNote>>
    /\ FenceAsClaimed(ws[2], n)
    /\ FenceAsClaimed(ws[Len(ws) - 1], n)
    /\ ws[Len(ws)] = <<CloseNote>>
    /\ Notes(ws) = <<<<OpenNote>>, <<CloseNote>>>>

\* C21: a raw block written in Discord mode with a run of three backticks
\* and more has the opening annotation right before its opening fence and
\* the closing one right after its closing fence, and no other; any other
\* raw block has none.  A call that returned Err has written the opening
\* annotation alone.
C21_AnnotationsExactlyWhenEscaped ==
    /\ (pc = "done" /\ Annotated)
          => AnnotatedAsClaimed(Writes(buf), Len(TakeWhileTick(node.text)))
    /\ (pc = "failed" /\ Annotated)
          => (Writes(buf)[1] = <<OpenNote>> /\ Notes(Writes(buf)) = <<<<OpenNote>>>>)
    /\ (pc \in {"done", "failed", "panicked"} /\ ~Annotated) => Notes(Writes(buf)) = <<>>

\* an annotated block with a language tag, written through the engine
C21_Witness == pc = "done" /\ Annotated /\ node.lang # <<>> /\ level >= WithRaw

RECURSIVE RequestedWrites(_, _)
\* the writes among the calls cs, each with the style asked for by the
\* latest set_color or reset before it; asked is the one asked for so far
RequestedWrites(cs, asked) ==
    IF cs = <<>> THEN <<>>
    ELSE IF Head(cs).op \in {"set_color", "reset"}
         THEN RequestedWrites(Tail(cs), Head(cs).spec)
    ELSE <<[style |-> asked, bytes |-> Head(cs).bytes]>> \o RequestedWrites(Tail(cs), asked)

\* C22: after any sequence of set_color, reset and write calls the sink has
\* received every write under the style asked for most recently before it
\* (the default style if none was asked for), and nothing else
C22_TransparentToReader ==
    StyledWrites(dw.inner.ops, DefaultSpec) = RequestedWrites(calls, DefaultSpec)

\* a style asked for, then the default style the sink still has, then a
\* write: the bytes arrive with no style sent
C22_Witness ==
    /\ Len(calls) = 3
    /\ calls[1].op = "set_color" /\ calls[1].spec # DefaultSpec
    /\ calls[2].op = "set_color" /\ calls[2].spec = DefaultSpec
    /\ calls[3].op = "write" /\ calls[3].bytes # <<>>
    /\ dw.inner.ops = <<OpWrite(calls[3].bytes)>>

\* the run of backticks at the start of the raw block
Run == TakeWhileTick(node.text)

\* C23: for every raw block highlight_raw was called on, the length
\* computed for the inner text is not negative and the slice does not
\* fail; once the block is written, the fence written last is the fence
\* written first, and the inner text written as it is (no language tag,
\* or a level below WithRaw) is the node text less the run at each end
C23_FenceStrippingExact ==
    pc \in {"done", "failed", "panicked"}
        => /\ InnerEnd(node.text, TrimStartTicks(node.text)) >= 0
           /\ pc # "panicked"
           /\ pc = "done"
                 => /\ RawWrites[Len(RawWrites)] = RawWrites[1]
                    /\ (node.lang = <<>> \/ level < WithRaw)
                          => RawWrites[Len(RawWrites) - 1]
                               = SourceBetween(node.text, Len(Run))

====
